---- MODULE Spec2Model ----
(***************************************************************************)
(* The cppgc marker (src/heap/cppgc/marker.cc) as a state machine.         *)
(*                                                                         *)
(* One marker instance drives one marking cycle over a finite heap.  The   *)
(* operations of MarkerBase are the actions; each action is the whole      *)
(* method, including the worklist drains it performs.  The collaborators   *)
(* that marker.cc only calls (marking state, worklists, visitors, task     *)
(* handle, heap) are modelled from their interface as the design document  *)
(* describes it.                                                           *)
(***************************************************************************)
EXTENDS Integers, Sequences, FiniteSets, TLC

(***************************************************************************)
(* Program constants.  size_t is modelled with 8 bits, so that the         *)
(* wrap-around of marked_bytes + expected_marked_bytes is within reach.    *)
(***************************************************************************)
SizeMax == 255

kDefaultDeadlineCheckInterval == 150

kMinimumMarkedBytesPerIncrementalStep == 2

(***************************************************************************)
(* Bounds of the model.                                                    *)
(***************************************************************************)
\* A bounded time budget expires at one of the first MaxClock + 1
\* evaluations of the yield predicate, or not at all during the step.
MaxClock == 0

\* Number of objects in the chain-shaped heap.
ChainLen == 4

VARIABLES
  heap,        \* the object graph: sizes, references, roots (fixed at Init)
  ctor,        \* the constructor's arguments: config and platform
  stack,       \* objects referenced from the execution stack
  inConstruction, \* objects whose constructor has not completed
  config_,     \* MarkerBase::config_
  ms,          \* mutator_marking_state_ and marking_worklists_
  is_marking_started_,
  incremental_marking_handle_,  \* 0 (empty) or the index of the task it names
  tasks,       \* tasks posted to the foreground task runner
  phase,       \* NotStarted, Marking, AtomicPause, Completed,
               \* Destroyed; Crashed
  procHeap,    \* ProcessHeap: calls of Enter/ExitIncrementalOrConcurrentMarking
  stats,       \* StatsCollector: NotifyMarkingStarted / NotifyMarkingCompleted
  remembered_slots, \* HeapBase::remembered_slots(): <<slot's object, value>>
  rootVisits,  \* what each VisitRoots did, in order
  weak,        \* ProcessWeakness: callbacks invoked so far
  ret          \* the last operation and what it returned

vars == <<heap, ctor, stack, inConstruction, config_, ms, is_marking_started_,
          incremental_marking_handle_, tasks, phase, procHeap, stats,
          remembered_slots, rootVisits, weak, ret>>

Objs == DOMAIN heap.size

Range(s) == {s[i] : i \in 1..Len(s)}

(***************************************************************************)
(* Heaps.  children are the strong references an object's trace callback   *)
(* visits, weakrefs the weak references it registers a callback for,       *)
(* written the objects the mutator writes a reference to during marking.   *)
(***************************************************************************)
NoRefs(n) == [i \in 1..n |-> <<>>]

BaseHeap(n) ==
  [size |-> [i \in 1..n |-> 1], children |-> NoRefs(n), weakrefs |-> NoRefs(n),
   persistent |-> <<>>, weakPersistent |-> {}, stack |-> <<>>,
   inConstruction |-> {}, written |-> {}, youngGeneration |-> FALSE,
   young |-> {}, remembered |-> <<>>]

\* Three root objects whose trace callbacks discover two more.
AtomicScenarioHeap ==
  [BaseHeap(5) EXCEPT !.size = <<1, 2, 1, 2, 1>>,
                      !.children = <<<<4>>, <<5>>, <<>>, <<>>, <<>>>>,
                      !.persistent = <<1, 2, 3>>,
                      !.written = {4}]

\* A chain 1 -> 2 -> ... -> ChainLen with one unreachable object after it;
\* object 2 holds weak references to the last object of the chain and to the
\* unreachable one.
ChainHeap ==
  LET n == ChainLen + 1 IN
  [BaseHeap(n) EXCEPT
     !.size = [i \in 1..n |-> 1 + (i % 2)],
     !.children = [i \in 1..n |-> IF i < ChainLen THEN <<i + 1>> ELSE <<>>],
     !.weakrefs = [i \in 1..n |-> IF i = 2 THEN <<ChainLen, n>> ELSE <<>>],
     !.persistent = <<1>>,
     !.written = {ChainLen - 1},
     !.weakPersistent = {n}]

\* An object under construction, referenced from the stack only, whose
\* memory refers to a chain of complete objects.
StackHeap ==
  [BaseHeap(4) EXCEPT !.size = <<1, 1, 2, 1>>,
                      !.children = <<<<2>>, <<3>>, <<4>>, <<>>>>,
                      !.stack = <<1>>,
                      !.inConstruction = {1}]

\* A persistent root referring to an object under construction.
NotFullyConstructedHeap ==
  [BaseHeap(4) EXCEPT !.size = <<2, 1, 1, 1>>,
                      !.children = <<<<3>>, <<1, 4>>, <<>>, <<>>>>,
                      !.persistent = <<2>>,
                      !.stack = <<1>>,
                      !.inConstruction = {1}]

\* Nothing but one root object, as large as the byte quota of a step.
RootsOnlyHeap ==
  [BaseHeap(1) EXCEPT !.size = <<kMinimumMarkedBytesPerIncrementalStep>>,
                      !.persistent = <<1>>]

\* A generational heap: object 2 is young, the others old.  The remembered
\* set holds a slot of old object 1 referring to young object 2 and a slot of
\* young object 2 referring to old object 3, and a slot of old object 3
\* referring to old object 4.
GenerationalHeap ==
  [BaseHeap(4) EXCEPT !.size = <<1, 1, 2, 1>>,
                      !.children = <<<<2>>, <<3>>, <<4>>, <<>>>>,
                      !.persistent = <<1>>,
                      !.youngGeneration = TRUE,
                      !.young = {2},
                      !.remembered = <<<<1, 2>>, <<2, 3>>, <<3, 4>>>>]

Heaps == {AtomicScenarioHeap, ChainHeap, StackHeap, NotFullyConstructedHeap,
          RootsOnlyHeap, GenerationalHeap}

\* Objects reachable from a set of objects over strong references.
RECURSIVE ReachableFrom(_)
ReachableFrom(S) ==
  LET T == S \cup UNION {Range(heap.children[o]) : o \in S}
  IN IF T = S THEN S ELSE ReachableFrom(T)

Roots == Range(heap.persistent) \cup stack

RECURSIVE SumSizes(_)
SumSizes(S) ==
  IF S = {} THEN 0
  ELSE LET o == CHOOSE x \in S : TRUE IN heap.size[o] + SumSizes(S \ {o})

(***************************************************************************)
(* MarkingState and MarkingWorklists (marking-state.h, marking-worklists.h)*)
(***************************************************************************)
EmptyMarkingState ==
  [marked |-> {},     \* headers with the mark bit set
   mq |-> <<>>,       \* marking_worklist
   nfc |-> <<>>,      \* not_fully_constructed_worklist
   pnfc |-> <<>>,     \* previously_not_fully_constructed_worklist
   wb |-> <<>>,       \* write_barrier_worklist
   weakq |-> <<>>,    \* weak_callback_worklist: <<holder, target>>
   bytes |-> 0,       \* marked_bytes()
   accounted |-> <<>>, \* every AccountMarkedBytes call, in order
   viaRemembered |-> <<>>, \* objects VisitRememberedSlots marked, in order
   flushed |-> {},    \* objects FlushNotFullyConstructedObjects moved
   cleared |-> <<>>,  \* what the destructor removed from nfc
   dchecks |-> {}]    \* DCHECKs that did not hold

Push(wl, item) == Append(wl, item)

Top(wl) == wl[Len(wl)]

Pop(wl) == SubSeq(wl, 1, Len(wl) - 1)

\* MarkingState::MarkAndPush: mark an unmarked header, then push it to the
\* not-fully-constructed worklist or to the marking worklist.
MarkAndPush(m, o) ==
  IF o \in m.marked THEN m
  ELSE IF o \in inConstruction
       THEN [m EXCEPT !.marked = @ \cup {o}, !.nfc = Push(@, o)]
       ELSE [m EXCEPT !.marked = @ \cup {o}, !.mq = Push(@, o)]

RECURSIVE MarkAndPushAll(_, _)
MarkAndPushAll(m, objs) ==
  IF objs = <<>> THEN m
  ELSE MarkAndPushAll(MarkAndPush(m, Head(objs)), Tail(objs))

\* MarkingState::AccountMarkedBytes
AccountMarkedBytes(m, o) ==
  [m EXCEPT !.bytes = (@ + heap.size[o]) % (SizeMax + 1),
            !.accounted = Append(@, o)]

\* An object's trace callback (GCInfo::trace, MarkingItem::callback): visits
\* its strong references and registers a callback for each weak one.
TraceCallback(m, o) ==
  LET m1 == MarkAndPushAll(m, heap.children[o])
      w == heap.weakrefs[o]
  IN [m1 EXCEPT !.weakq = @ \o [i \in 1..Len(w) |-> <<o, w[i]>>]]

Check(m, name, cond) ==
  IF cond THEN m ELSE [m EXCEPT !.dchecks = @ \cup {name}]

(***************************************************************************)
(* Conservative tracing (ConservativeTracingVisitor, the stack visitor).   *)
(***************************************************************************)
\* A candidate pointer found on the stack or in the memory of an object
\* under construction: an unmarked object is marked; a complete one is pushed
\* for tracing, one under construction has its memory scanned for pointers
\* and is accounted on the spot.
RECURSIVE VisitPointer(_, _)
RECURSIVE VisitPointers(_, _)
VisitPointer(m, o) ==
  IF o \in m.marked THEN m
  ELSE IF o \in inConstruction
       THEN AccountMarkedBytes(
              VisitPointers([m EXCEPT !.marked = @ \cup {o}], heap.children[o]),
              o)
       ELSE MarkAndPush(m, o)

VisitPointers(m, objs) ==
  IF objs = <<>> THEN m
  ELSE VisitPointers(VisitPointer(m, Head(objs)), Tail(objs))

\* ConservativeTracingVisitor::TraceConservativelyIfNeeded on a header taken
\* from the not-fully-constructed worklist: it "will either push to a
\* worklist or trace conservatively and call AccountMarkedBytes".
TraceConservativelyIfNeeded(m, o) ==
  IF o \in inConstruction
  THEN AccountMarkedBytes(
         VisitPointers([m EXCEPT !.marked = @ \cup {o}], heap.children[o]), o)
  ELSE [m EXCEPT !.marked = @ \cup {o}, !.mq = Push(@, o)]

\* MarkingWorklists::FlushNotFullyConstructedObjects: the entries of the
\* not-fully-constructed worklist become previously-not-fully-constructed.
FlushNotFullyConstructedObjects(m) ==
  [m EXCEPT !.pnfc = @ \o m.nfc, !.nfc = <<>>,
            !.flushed = @ \cup Range(m.nfc)]

(***************************************************************************)
(* marker.cc, anonymous namespace                                          *)
(***************************************************************************)
IsIncrementalOrConcurrent(marking_type) ==
  marking_type \in {"Incremental", "IncrementalAndConcurrent"}

\* EnterIncrementalMarkingIfNeeded: whether it entered.
EnterIncrementalMarkingIfNeeded(config) ==
  IsIncrementalOrConcurrent(config.marking_type)

\* ExitIncrementalMarkingIfNeeded: whether it exited.
ExitIncrementalMarkingIfNeeded_IncrementalOnly(config) ==
  config.marking_type = "Incremental"

ExitIncrementalMarkingIfNeeded(config) ==
  IsIncrementalOrConcurrent(config.marking_type)

\* MarkingState::DynamicallyMarkAddress
DynamicallyMarkAddress(m, o) ==
  IF o \in m.marked THEN m
  ELSE [m EXCEPT !.marked = @ \cup {o}, !.mq = Push(@, o),
                 !.viaRemembered = Append(@, o)]

\* VisitRememberedSlots: skips a slot whose own header is young, marks the
\* value of every other slot.  Compiled in with CPPGC_YOUNG_GENERATION only.
RECURSIVE VisitRememberedSlots_NoSkip(_, _)
VisitRememberedSlots_NoSkip(m, slots) ==
  IF ~heap.youngGeneration \/ slots = <<>> THEN m
  ELSE VisitRememberedSlots_NoSkip(DynamicallyMarkAddress(m, Head(slots)[2]),
                                   Tail(slots))

RECURSIVE VisitRememberedSlots(_, _)
VisitRememberedSlots(m, slots) ==
  IF ~heap.youngGeneration \/ slots = <<>> THEN m
  ELSE LET slot == Head(slots)
           m1 == IF slot[1] \in heap.young THEN m
                 ELSE DynamicallyMarkAddress(m, slot[2])
       IN VisitRememberedSlots(m1, Tail(slots))

\* TraceMarkedObject
TraceMarkedObject(m, o) ==
  LET m1 == Check(m, "TraceMarkedObject:!IsInConstruction", o \notin inConstruction)
      m2 == Check(m1, "TraceMarkedObject:IsMarked", o \in m.marked)
  IN TraceCallback(m2, o)

\* The yield predicate of DrainWorklistWithBytesAndTimeDeadline.  timeUp
\* stands for time_deadline <= TimeTicks::Now().
ShouldYield_Strict(marked_bytes_deadline, marked_bytes, timeUp) ==
  (marked_bytes_deadline < marked_bytes) \/ timeUp

ShouldYield(marked_bytes_deadline, marked_bytes, timeUp) ==
  (marked_bytes_deadline <= marked_bytes) \/ timeUp

\* processed_callback_count-- == 0
DeadlineCheckIsDue(processed_callback_count) ==
  processed_callback_count = 0

\* The callbacks ProcessWorklistsWithDeadline hands to the three drains.
PreviouslyNotFullyConstructedCallback_Readd(m, o) ==
  [AccountMarkedBytes(TraceMarkedObject(m, o), o) EXCEPT !.mq = Push(@, o)]

PreviouslyNotFullyConstructedCallback(m, o) ==
  AccountMarkedBytes(TraceMarkedObject(m, o), o)

MarkingWorklistCallback(m, o) ==
  LET m1 == Check(m, "MarkingItem:!IsInConstruction", o \notin inConstruction)
      m2 == Check(m1, "MarkingItem:IsMarked", o \in m.marked)
  IN AccountMarkedBytes(TraceCallback(m2, o), o)

WriteBarrierCallback_Requeue(m, o) ==
  [AccountMarkedBytes(TraceMarkedObject(m, o), o) EXCEPT !.mq = Push(@, o)]

WriteBarrierCallback(m, o) ==
  AccountMarkedBytes(TraceMarkedObject(m, o), o)

Callback(wl, m, o) ==
  CASE wl = "pnfc" -> PreviouslyNotFullyConstructedCallback(m, o)
    [] wl = "mq" -> MarkingWorklistCallback(m, o)
    [] wl = "wb" -> WriteBarrierCallback(m, o)

(***************************************************************************)
(* A run of ProcessWorklistsWithDeadline is the record                     *)
(*   m         the marking state                                           *)
(*   deadline  marked_bytes_deadline                                       *)
(*   ticks     evaluations of the yield predicate before the time deadline *)
(*             passes (-1: it does not pass during the run)                *)
(*   count     processed_callback_count of the drain in progress           *)
(*   done      the value returned                                          *)
(*   evals     evaluations of the yield predicate so far                   *)
(*   loops     iterations of the do-while loop so far                      *)
(*   start     marked_bytes when the run started                           *)
(*   checkBytes, sinceCheck                                                *)
(*             marked_bytes at the latest evaluation of the predicate (or  *)
(*             at the start), and the items processed since then           *)
(***************************************************************************)
\* DrainWorklistWithDeadline, for worklist wl: the loop, its body up to the
\* callback, and its body from the test of processed_callback_count on.
RECURSIVE DrainLoop(_, _)
RECURSIVE DrainAfterCallback(_, _, _)
DrainCallback(r, wl) ==
  [r EXCEPT !.m = Callback(wl, [r.m EXCEPT ![wl] = Pop(@)], Top(r.m[wl])),
            !.sinceCheck = Append(@, Top(r.m[wl]))]

DrainLoop(r, wl) ==
  IF r.m[wl] = <<>> THEN [r EXCEPT !.done = TRUE]
  ELSE DrainAfterCallback(DrainCallback(r, wl), r.count, wl)

DrainAfterCallback(r, processed_callback_count, wl) ==
  IF DeadlineCheckIsDue(processed_callback_count)
  THEN IF ShouldYield(r.deadline, r.m.bytes, r.ticks = 0)
       THEN [r EXCEPT !.done = FALSE, !.evals = @ + 1]
       ELSE DrainLoop([r EXCEPT !.count = kDefaultDeadlineCheckInterval,
                                !.ticks = IF @ > 0 THEN @ - 1 ELSE @,
                                !.evals = @ + 1,
                                !.checkBytes = r.m.bytes,
                                !.sinceCheck = <<>>], wl)
  ELSE DrainLoop([r EXCEPT !.count = @ - 1], wl)

DrainWorklistWithDeadline(r, wl) == DrainLoop([r EXCEPT !.count = 0], wl)

\* marked_bytes() + expected_marked_bytes, in size_t
MarkedBytesDeadline(marked_bytes, expected_marked_bytes) ==
  (marked_bytes + expected_marked_bytes) % (SizeMax + 1)

\* The do-while loop of ProcessWorklistsWithDeadline: the three drains and
\* the loop condition.
RECURSIVE ProcessWorklistsLoop(_)
LoopCondition_Once(r) ==
  IF ~r.done THEN r ELSE [r EXCEPT !.done = TRUE]

LoopCondition(r) ==
  IF ~r.done THEN r
  ELSE IF r.m.mq # <<>> THEN ProcessWorklistsLoop(r)
  ELSE [r EXCEPT !.done = TRUE]

DrainWriteBarrierWorklist(r) ==
  IF ~r.done THEN r ELSE LoopCondition(DrainWorklistWithDeadline(r, "wb"))

DrainMarkingWorklist(r) ==
  IF ~r.done THEN r
  ELSE DrainWriteBarrierWorklist(DrainWorklistWithDeadline(r, "mq"))

ProcessWorklistsLoop(r) ==
  DrainMarkingWorklist(
    DrainWorklistWithDeadline([r EXCEPT !.loops = @ + 1], "pnfc"))

ProcessWorklistsWithDeadline(m, expected_marked_bytes, ticks) ==
  ProcessWorklistsLoop(
    [m |-> m, start |-> m.bytes,
     deadline |-> MarkedBytesDeadline(m.bytes, expected_marked_bytes),
     ticks |-> ticks, count |-> 0, done |-> FALSE, evals |-> 0, loops |-> 0,
     checkBytes |-> m.bytes, sinceCheck |-> <<>>])

\* The run of an operation that drains nothing.
NoRun(m) ==
  [m |-> m, start |-> m.bytes, deadline |-> 0, ticks |-> -1, count |-> 0,
   done |-> FALSE, evals |-> 0, loops |-> 0, checkBytes |-> m.bytes,
   sinceCheck |-> <<>>]

\* The clock readings a time budget allows: v8::base::TimeDelta::Max() is
\* never reached; a finite budget may pass at any evaluation of the yield
\* predicate, or not at all.
Ticks(max_duration) ==
  IF max_duration = "Max" THEN {-1} ELSE -1..MaxClock

(***************************************************************************)
(* MarkerBase.  A method takes the marker's state as a record and gives    *)
(* the state it leaves; the actions below install that state.              *)
(***************************************************************************)
Marker ==
  [config_ |-> config_, ms |-> ms, started |-> is_marking_started_,
   handle |-> incremental_marking_handle_, tasks |-> tasks, phase |-> phase,
   procHeap |-> procHeap, stats |-> stats, remembered |-> remembered_slots,
   rootVisits |-> rootVisits, finalized |-> FALSE]

\* Handle::operator bool: the handle names a task that is posted and has
\* neither been cancelled nor run.
HandleIsSet(s) ==
  /\ s.handle # 0
  /\ ~s.tasks[s.handle].cancelled
  /\ ~s.tasks[s.handle].ran

\* Handle::Cancel
Cancel(s) == [s EXCEPT !.tasks[s.handle].cancelled = TRUE]

\* Handle::IsCanceled, on the copy of the handle task i holds
IsCanceled(tk, i) == tk[i].cancelled

\* IncrementalMarkingTask::Post
Post(s) ==
  [s EXCEPT !.tasks = Append(@, [cancelled |-> FALSE, ran |-> FALSE]),
            !.handle = Len(s.tasks) + 1]

ScheduleIncrementalMarkingTask_NoHandleCheck(s) ==
  IF ~ctor.platform \/ ~ctor.foreground_task_runner
  THEN s
  ELSE Post(s)

\* MarkerBase::ScheduleIncrementalMarkingTask
ScheduleIncrementalMarkingTask(s) ==
  IF ~ctor.platform \/ ~ctor.foreground_task_runner \/ HandleIsSet(s)
  THEN s
  ELSE Post(s)

StackPointers == SelectSeq(heap.stack, LAMBDA o : o \in stack)

\* MarkerBase::VisitRoots: what it does, in order (with the phase it is
\* called in and the number of unmatched EnterIncrementalOrConcurrentMarking
\* calls at that time), and the marking it does.
RootVisit(s, stack_state) ==
  [stack_state |-> stack_state,
   did |-> <<"ResetLinearAllocationBuffers", "StrongPersistentRegion">>
           \o (IF stack_state # "NoHeapPointers" THEN <<"Stack">> ELSE <<>>)
           \o (IF s.config_.collection_type = "Minor"
               THEN <<"RememberedSlots">> ELSE <<>>),
   phase |-> s.phase,
   marking |-> s.procHeap.entered - s.procHeap.exited]

VisitRememberedSlotsIfMinor(s, m) ==
  IF s.config_.collection_type = "Minor"
  THEN VisitRememberedSlots(m, s.remembered)
  ELSE m

IteratePointersIfNeeded(m, stack_state) ==
  IF stack_state # "NoHeapPointers" THEN VisitPointers(m, StackPointers) ELSE m

VisitRoots(s, stack_state) ==
  [s EXCEPT
     !.ms = VisitRememberedSlotsIfMinor(s,
              IteratePointersIfNeeded(MarkAndPushAll(@, heap.persistent),
                                      stack_state)),
     !.rootVisits = Append(@, RootVisit(s, stack_state))]

StartMarking_ScanStack(s) ==
  IF EnterIncrementalMarkingIfNeeded(s.config_)
  THEN ScheduleIncrementalMarkingTask(
         VisitRoots([s EXCEPT !.stats.started = @ + 1, !.started = TRUE,
                              !.phase = "Marking",
                              !.procHeap.entered = @ + 1],
                    s.config_.stack_state))
  ELSE [s EXCEPT !.stats.started = @ + 1, !.started = TRUE,
                 !.phase = "Marking"]

\* MarkerBase::StartMarking
StartMarking(s) ==
  IF EnterIncrementalMarkingIfNeeded(s.config_)
  THEN ScheduleIncrementalMarkingTask(
         VisitRoots([s EXCEPT !.stats.started = @ + 1, !.started = TRUE,
                              !.phase = "Marking",
                              !.procHeap.entered = @ + 1],
                    "NoHeapPointers"))
  ELSE [s EXCEPT !.stats.started = @ + 1, !.started = TRUE,
                 !.phase = "Marking"]

\* MarkerBase::MarkNotFullyConstructedObjects
RECURSIVE MarkNotFullyConstructedObjects(_)
MarkNotFullyConstructedObjects(m) ==
  IF m.nfc = <<>> THEN m
  ELSE MarkNotFullyConstructedObjects(
         TraceConservativelyIfNeeded(
           Check([m EXCEPT !.nfc = Pop(@)],
                 "MarkNotFullyConstructedObjects:IsMarked",
                 Top(m.nfc) \in m.marked),
           Top(m.nfc)))

\* MarkerBase::EnterAtomicPause: leaving incremental marking, the new config,
\* and the not-fully-constructed objects
CancelIfSet(s) == IF HandleIsSet(s) THEN Cancel(s) ELSE s

ExitIncrementalMarking(s) ==
  IF ExitIncrementalMarkingIfNeeded(s.config_)
  THEN CancelIfSet([s EXCEPT !.procHeap.exited = @ + 1])
  ELSE s

HandleNotFullyConstructed_NoFlush(s) ==
  IF s.config_.stack_state = "NoHeapPointers"
  THEN s
  ELSE [s EXCEPT !.ms = MarkNotFullyConstructedObjects(@)]

HandleNotFullyConstructed(s) ==
  IF s.config_.stack_state = "NoHeapPointers"
  THEN [s EXCEPT !.ms = FlushNotFullyConstructedObjects(@)]
  ELSE [s EXCEPT !.ms = MarkNotFullyConstructedObjects(@)]

EnterAtomicPause(s, stack_state) ==
  HandleNotFullyConstructed(
    VisitRoots([ExitIncrementalMarking(s) EXCEPT
                  !.config_.stack_state = stack_state,
                  !.config_.marking_type = "Atomic",
                  !.phase = "AtomicPause"],
               stack_state))

\* MarkerBase::LeaveAtomicPause
LeaveAtomicPause(s) ==
  [s EXCEPT !.ms = Check(@, "LeaveAtomicPause:!incremental_marking_handle_",
                         ~HandleIsSet(s)),
            !.remembered = <<>>,
            !.stats.completed = Append(@, s.ms.bytes),
            !.phase = "Completed"]

\* MarkerBase::FinishMarking: its drain, whose result it drops, and the rest
FinishMarkingAfterDrain(s, r) ==
  [s |-> [LeaveAtomicPause([s EXCEPT !.ms = r.m]) EXCEPT !.started = FALSE],
   run |-> r]

FinishMarkingDrain(s) ==
  FinishMarkingAfterDrain(s, ProcessWorklistsWithDeadline(s.ms, SizeMax, -1))

FinishMarking(s, stack_state) ==
  FinishMarkingDrain(
    EnterAtomicPause(
      [s EXCEPT !.ms = Check(@, "FinishMarking:is_marking_started_", s.started)],
      stack_state))

AdvanceMarkingResult_NoSchedule(s, r) ==
  IF ~r.done
  THEN [s |-> [s EXCEPT !.ms = Check(r.m,
                 "AdvanceMarkingWithDeadline:!kAtomic",
                 s.config_.marking_type # "Atomic")],
        run |-> r]
  ELSE [s |-> [s EXCEPT !.ms = r.m], run |-> r]

\* MarkerBase::AdvanceMarkingWithDeadline: what it does with is_done
AdvanceMarkingResult(s, r) ==
  IF ~r.done
  THEN [s |-> ScheduleIncrementalMarkingTask(
                [s EXCEPT !.ms = Check(r.m,
                   "AdvanceMarkingWithDeadline:!kAtomic",
                   s.config_.marking_type # "Atomic")]),
        run |-> r]
  ELSE [s |-> [s EXCEPT !.ms = r.m], run |-> r]

AdvanceMarkingWithDeadline(s, expected_marked_bytes, ticks) ==
  AdvanceMarkingResult(
    s, ProcessWorklistsWithDeadline(s.ms, expected_marked_bytes, ticks))

IncrementalMarkingStep_Flush(s, stack_state, expected_marked_bytes, ticks) ==
  AdvanceMarkingWithDeadline(
    [s EXCEPT !.ms = FlushNotFullyConstructedObjects(@),
              !.config_.stack_state = stack_state],
    expected_marked_bytes, ticks)

\* MarkerBase::IncrementalMarkingStep
IncrementalMarkingStep(s, stack_state, expected_marked_bytes, ticks) ==
  AdvanceMarkingWithDeadline(
    [s EXCEPT !.ms = IF stack_state = "NoHeapPointers"
                     THEN FlushNotFullyConstructedObjects(@) ELSE @,
              !.config_.stack_state = stack_state],
    expected_marked_bytes, ticks)

AdvanceMarkingOnAllocation_AsStep(s, ticks) ==
  IncrementalMarkingStep(s, "NoHeapPointers",
                         kMinimumMarkedBytesPerIncrementalStep, ticks)

\* MarkerBase::AdvanceMarkingOnAllocation
AdvanceMarkingOnAllocation(s, ticks) ==
  AdvanceMarkingWithDeadline(s, kMinimumMarkedBytesPerIncrementalStep, ticks)

\* HeapBase::FinalizeIncrementalGarbageCollectionIfNeeded: the heap runs the
\* atomic pause at once, or leaves it for later.
FinalizeIncrementalGarbageCollectionIfNeeded(s, stack_state, now) ==
  IF now /\ s.phase = "Marking"
  THEN [FinishMarking(s, stack_state).s EXCEPT !.finalized = TRUE]
  ELSE [s EXCEPT !.finalized = TRUE]

\* MarkerBase::IncrementalMarkingTask::Run, for the task posted i-th: what it
\* does with the step's result
RunAfterStep(a, now) ==
  IF a.run.done
  THEN [s |-> FinalizeIncrementalGarbageCollectionIfNeeded(
                a.s, "NoHeapPointers", now),
        run |-> a.run]
  ELSE a

Run_NoCancelCheck(s, i, ticks, now) ==
  RunAfterStep(
    IncrementalMarkingStep(s, "NoHeapPointers",
                           kMinimumMarkedBytesPerIncrementalStep, ticks),
    now)

Run(s, i, ticks, now) ==
  IF IsCanceled(s.tasks, i)
  THEN [s |-> s, run |-> NoRun(s.ms)]
  ELSE RunAfterStep(
         IncrementalMarkingStep(s, "NoHeapPointers",
                                kMinimumMarkedBytesPerIncrementalStep, ticks),
         now)

\* MarkerBase::ProcessWeakness
InvokeWeakCallbacks_First(m, w) ==
  IF m.weakq = <<>> THEN [m |-> m, w |-> w]
  ELSE [m |-> [m EXCEPT !.weakq = Pop(@)],
        w |-> [w EXCEPT !.invoked = Append(@, Top(m.weakq))]]

RECURSIVE InvokeWeakCallbacks(_, _)
InvokeWeakCallbacks(m, w) ==
  IF m.weakq = <<>> THEN [m |-> m, w |-> w]
  ELSE LET item == Top(m.weakq)
       IN InvokeWeakCallbacks(
            [m EXCEPT !.weakq = Pop(@)],
            [w EXCEPT !.invoked = Append(@, item),
                      !.cleared = IF item[2] \in m.marked THEN @
                                  ELSE @ \cup {item}])

ProcessWeaknessResult(r) ==
  [m |-> Check(r.m, "ProcessWeakness:marking_worklist.IsEmpty", r.m.mq = <<>>),
   w |-> [r.w EXCEPT !.processed = TRUE]]

ProcessWeakness(m, w) ==
  ProcessWeaknessResult(
    InvokeWeakCallbacks(
      m, [w EXCEPT !.clearedRoots =
                     {o \in heap.weakPersistent : o \notin m.marked},
                   !.enqueued = m.weakq,
                   !.mqBefore = m.mq]))

(***************************************************************************)
(* The state machine                                                       *)
(***************************************************************************)
StackStates == {"MayContainHeapPointers", "NoHeapPointers"}

MarkingTypes == {"Atomic", "Incremental", "IncrementalAndConcurrent"}

CollectionTypes(h) == IF h.youngGeneration THEN {"Major", "Minor"} ELSE {"Major"}

\* Byte budgets of a bounded step.
StepBudgets == {kMinimumMarkedBytesPerIncrementalStep}

\* Budgets AdvanceMarkingWithDeadline is called with: those of a bounded step
\* and the unbounded ones.
AdvanceBudgets ==
  {<<kMinimumMarkedBytesPerIncrementalStep, "Step">>, <<SizeMax, "Max">>}

\* What an operation returned: op names it, done is its result (TRUE for an
\* operation that returns nothing), budget the byte budget of its drain,
\* start and bytes the marked_bytes() the drain started and returned with,
\* drained whether the three worklists it drains were empty when it returned,
\* stale whether a cancelled task ran, finalized whether the heap was asked
\* to finalize; the rest is what the drain did (see the run record).
Ret(op, done, budget, r, stale, finalized) ==
  [op |-> op, done |-> done, budget |-> budget, start |-> r.start,
   bytes |-> r.m.bytes,
   drained |-> r.m.pnfc = <<>> /\ r.m.mq = <<>> /\ r.m.wb = <<>>,
   deadline |-> r.deadline, evals |-> r.evals, loops |-> r.loops,
   timeUp |-> r.ticks = 0,
   checkBytes |-> r.checkBytes, sinceCheck |-> r.sinceCheck,
   stale |-> stale, finalized |-> finalized]

Install(s) ==
  /\ config_' = s.config_
  /\ ms' = s.ms
  /\ is_marking_started_' = s.started
  /\ incremental_marking_handle_' = s.handle
  /\ tasks' = s.tasks
  /\ phase' = s.phase
  /\ procHeap' = s.procHeap
  /\ stats' = s.stats
  /\ remembered_slots' = s.remembered
  /\ rootVisits' = s.rootVisits

\* An operation that drains: its state is installed, its result recorded.
Returns(op, a, budget, stale) ==
  /\ Install(a.s)
  /\ ret' = Ret(op, a.run.done, budget, a.run, stale, a.s.finalized)

\* An operation that returns nothing.
Returned(op) == ret' = Ret(op, TRUE, 0, NoRun(ms), FALSE, FALSE)

\* The NoHeapPointers policy may be passed only while the stack holds no
\* pointer into the heap.
PolicyAllowed(stack_state) == stack_state = "NoHeapPointers" => stack = {}

\* MarkerBase::MarkerBase.  The constructor calls
\* platform_->GetForegroundTaskRunner() whatever platform is: with a null
\* platform the behaviour is undefined, and the process either dies in the
\* constructor (phase "Crashed") or goes on with a null or a garbage
\* foreground_task_runner_.
InitEnv(h, c, crashed) ==
  /\ heap = h
  /\ ctor = c
  /\ stack = Range(h.stack)
  /\ inConstruction = h.inConstruction
  /\ config_ = c.config
  /\ ms = EmptyMarkingState
  /\ is_marking_started_ = FALSE
  /\ incremental_marking_handle_ = 0
  /\ tasks = <<>>
  /\ phase = IF crashed THEN "Crashed" ELSE "NotStarted"
  /\ procHeap = [entered |-> 0, exited |-> 0]
  /\ stats = [started |-> 0, completed |-> <<>>]
  /\ remembered_slots = h.remembered
  /\ rootVisits = <<>>
  /\ weak = [processed |-> FALSE, invoked |-> <<>>, cleared |-> {},
             clearedRoots |-> {}, enqueued |-> <<>>, mqBefore |-> <<>>]
  /\ ret = Ret("MarkerBase", TRUE, 0, NoRun(EmptyMarkingState), FALSE, FALSE)

Init ==
  \E h \in Heaps :
    \E ct \in CollectionTypes(h), mt \in MarkingTypes,
       platform \in BOOLEAN, runner \in BOOLEAN, crashed \in BOOLEAN :
      /\ crashed => ~platform /\ ~runner
      /\ InitEnv(h, [config |-> [collection_type |-> ct, marking_type |-> mt,
                                 stack_state |-> "MayContainHeapPointers"],
                     platform |-> platform,
                     foreground_task_runner |-> runner],
                 crashed)

DoStartMarking ==
  /\ phase = "NotStarted"
  /\ Install(StartMarking(Marker))
  /\ Returned("StartMarking")
  /\ UNCHANGED <<heap, ctor, stack, inConstruction, weak>>

DoIncrementalMarkingStepForTesting ==
  /\ phase = "Marking"
  /\ \E stack_state \in StackStates, b \in StepBudgets, t \in Ticks("Step") :
       /\ PolicyAllowed(stack_state)
       /\ Returns("IncrementalMarkingStep",
                  IncrementalMarkingStep(Marker, stack_state, b, t), b, FALSE)
  /\ UNCHANGED <<heap, ctor, stack, inConstruction, weak>>

DoAdvanceMarkingOnAllocation ==
  /\ phase = "Marking"
  /\ \E t \in Ticks("Step") :
       Returns("AdvanceMarkingOnAllocation",
               AdvanceMarkingOnAllocation(Marker, t),
               kMinimumMarkedBytesPerIncrementalStep, FALSE)
  /\ UNCHANGED <<heap, ctor, stack, inConstruction, weak>>

DoAdvanceMarkingWithDeadline ==
  /\ phase \in {"Marking", "AtomicPause"}
  /\ \E bd \in AdvanceBudgets :
       \E t \in Ticks(bd[2]) :
         Returns("AdvanceMarkingWithDeadline",
                 AdvanceMarkingWithDeadline(Marker, bd[1], t), bd[1], FALSE)
  /\ UNCHANGED <<heap, ctor, stack, inConstruction, weak>>

DoEnterAtomicPause ==
  /\ phase = "Marking"
  /\ \E stack_state \in StackStates :
       /\ PolicyAllowed(stack_state)
       /\ Install(EnterAtomicPause(Marker, stack_state))
  /\ Returned("EnterAtomicPause")
  /\ UNCHANGED <<heap, ctor, stack, inConstruction, weak>>

DoLeaveAtomicPause ==
  /\ phase = "AtomicPause"
  /\ Install(LeaveAtomicPause(Marker))
  /\ Returned("LeaveAtomicPause")
  /\ UNCHANGED <<heap, ctor, stack, inConstruction, weak>>

DoFinishMarking ==
  /\ phase = "Marking"
  /\ \E stack_state \in StackStates :
       /\ PolicyAllowed(stack_state)
       /\ Returns("FinishMarking", FinishMarking(Marker, stack_state),
                  SizeMax, FALSE)
  /\ UNCHANGED <<heap, ctor, stack, inConstruction, weak>>

WeaknessProcessed(a) == ms' = a.m /\ weak' = a.w

DoProcessWeakness ==
  /\ phase = "Completed"
  /\ ~weak.processed
  /\ WeaknessProcessed(ProcessWeakness(ms, weak))
  /\ Returned("ProcessWeakness")
  /\ UNCHANGED <<heap, ctor, stack, inConstruction, config_,
                 is_marking_started_, incremental_marking_handle_, tasks,
                 phase, procHeap, stats, remembered_slots, rootVisits>>

\* The foreground task runner runs the task posted first among those it has
\* not run yet, at the top of the event loop: no frame of the mutator is on
\* the stack.  A task is no longer pending once it starts to run.
RunTask ==
  /\ stack = {}
  /\ \E i \in 1..Len(tasks) :
       /\ ~tasks[i].ran
       /\ \A j \in 1..(i - 1) : tasks[j].ran
       /\ \E t \in Ticks("Step"), now \in BOOLEAN :
            Returns("IncrementalMarkingTask::Run",
                    Run([Marker EXCEPT !.tasks[i].ran = TRUE], i, t, now),
                    kMinimumMarkedBytesPerIncrementalStep,
                    IsCanceled(tasks, i))
  /\ UNCHANGED <<heap, ctor, stack, inConstruction, weak>>

(***************************************************************************)
(* The mutator, while marking is in progress                               *)
(***************************************************************************)
\* The constructor of an object returns.
FinishConstruction ==
  /\ phase = "Marking"
  /\ \E o \in inConstruction : inConstruction' = inConstruction \ {o}
  /\ Returned("FinishConstruction")
  /\ UNCHANGED <<heap, ctor, stack, config_, ms, is_marking_started_,
                 incremental_marking_handle_, tasks, phase, procHeap, stats,
                 remembered_slots, rootVisits, weak>>

\* The mutator returns to the event loop.
ReturnToEventLoop ==
  /\ phase = "Marking"
  /\ stack # {}
  /\ inConstruction = {}
  /\ stack' = {}
  /\ Returned("ReturnToEventLoop")
  /\ UNCHANGED <<heap, ctor, inConstruction, config_, ms, is_marking_started_,
                 incremental_marking_handle_, tasks, phase, procHeap, stats,
                 remembered_slots, rootVisits, weak>>

\* MarkerBase::~MarkerBase, in a build with DEBUG (the DCHECKs, popping every
\* header) and in one without (Clear).
Destroy(m, stack_state, debug) ==
  IF m.nfc = <<>> THEN m
  ELSE IF debug
       THEN [Check(Check(m, "~MarkerBase:!kNoHeapPointers",
                         stack_state # "NoHeapPointers"),
                   "~MarkerBase:IsMarked", Range(m.nfc) \subseteq m.marked)
               EXCEPT !.nfc = <<>>, !.cleared = m.nfc]
       ELSE [m EXCEPT !.nfc = <<>>, !.cleared = m.nfc]

\* The marker is destroyed, before a cycle or after one has completed.
DoDestroy ==
  /\ phase \in {"NotStarted", "Completed"}
  /\ \E debug \in BOOLEAN : ms' = Destroy(ms, config_.stack_state, debug)
  /\ phase' = "Destroyed"
  /\ Returned("~MarkerBase")
  /\ UNCHANGED <<heap, ctor, stack, inConstruction, config_,
                 is_marking_started_, incremental_marking_handle_, tasks,
                 procHeap, stats, remembered_slots, rootVisits, weak>>

\* The marking write barrier, active while incremental or concurrent marking
\* is in progress: marks the object a reference is written to and pushes it
\* to the write-barrier worklist (the not-fully-constructed one for an object
\* under construction).
WriteBarrier ==
  /\ phase = "Marking"
  /\ procHeap.entered > procHeap.exited
  /\ \E o \in (heap.written \cap ReachableFrom(Roots)) \ ms.marked :
       ms' = IF o \in inConstruction
             THEN [ms EXCEPT !.marked = @ \cup {o}, !.nfc = Push(@, o)]
             ELSE [ms EXCEPT !.marked = @ \cup {o}, !.wb = Push(@, o)]
  /\ Returned("WriteBarrier")
  /\ UNCHANGED <<heap, ctor, stack, inConstruction, config_,
                 is_marking_started_, incremental_marking_handle_, tasks,
                 phase, procHeap, stats, remembered_slots, rootVisits, weak>>

Next ==
  \/ DoStartMarking
  \/ DoIncrementalMarkingStepForTesting
  \/ DoAdvanceMarkingOnAllocation
  \/ DoAdvanceMarkingWithDeadline
  \/ DoEnterAtomicPause
  \/ DoLeaveAtomicPause
  \/ DoFinishMarking
  \/ DoProcessWeakness
  \/ DoDestroy
  \/ RunTask
  \/ FinishConstruction
  \/ ReturnToEventLoop
  \/ WriteBarrier

Spec == Init /\ [][Next]_vars

(***************************************************************************)
(* Properties                                                              *)
(***************************************************************************)
DrainOps ==
  {"IncrementalMarkingStep", "AdvanceMarkingOnAllocation",
   "AdvanceMarkingWithDeadline", "IncrementalMarkingTask::Run",
   "FinishMarking"}

NoDuplicates(q) == \A i, j \in 1..Len(q) : q[i] = q[j] => i = j

Pending == {i \in 1..Len(tasks) : ~tasks[i].ran /\ ~tasks[i].cancelled}

\* C1: in a cycle of an Atomic config, when FinishMarking has returned the
\* marked objects are exactly those reachable from the roots, and the bytes
\* passed to NotifyMarkingCompleted are the sum of their sizes.
AtomicCycleMarksExactlyTheReachable ==
  (ret.op = "FinishMarking" /\ ctor.config.marking_type = "Atomic")
    => /\ ms.marked = ReachableFrom(Roots)
       /\ stats.completed = <<SumSizes(ReachableFrom(Roots))>>

\* C2: a drain with the unbounded budgets (SizeMax bytes, TimeDelta::Max())
\* returns "complete" and leaves the previously-not-fully-constructed, the
\* marking and the write-barrier worklist empty.
UnboundedDrainCompletes ==
  (ret.op \in {"FinishMarking", "AdvanceMarkingWithDeadline"}
   /\ ret.budget = SizeMax)
    => ret.done /\ ret.drained

\* C3: whenever a drain returns "done", the three worklists it drains are
\* empty at that moment.
DoneOnlyWhenDrained ==
  (ret.op \in DrainOps /\ ~ret.stale /\ ret.done) => ret.drained

\* C3, witness: a drain returned "done" after the write-barrier stage pushed
\* to the marking worklist and the loop ran again.
DoneAfterRepeatedLoop ==
  ret.op \in DrainOps /\ ret.done /\ ret.drained /\ ret.loops >= 2

\* C4: the marked-byte counter never decreases, and no object is accounted
\* twice, through whichever worklist or the conservative path it goes.
MarkedBytesMonotonicAndOncePerObject ==
  [][/\ ms'.bytes >= ms.bytes
     /\ NoDuplicates(ms'.accounted)
     /\ ms'.bytes = SumSizes(Range(ms'.accounted))]_vars

\* C4, witness: an object under construction has been accounted by the
\* conservative path, and others by the drained worklists.
AccountedThroughSeveralPaths ==
  /\ \E o \in inConstruction : o \in Range(ms.accounted)
  /\ Len(ms.accounted) >= 3

BoundedOps ==
  {"IncrementalMarkingStep", "AdvanceMarkingOnAllocation",
   "AdvanceMarkingWithDeadline", "IncrementalMarkingTask::Run"}

\* A step with the byte budget of a bounded step returned "incomplete".
IncompleteBoundedStep ==
  /\ ret.op \in BoundedOps
  /\ ~ret.stale
  /\ ret.budget = kMinimumMarkedBytesPerIncrementalStep
  /\ ~ret.done

LargestSize ==
  CHOOSE n \in Range(heap.size) : \A k \in Range(heap.size) : k <= n

RECURSIVE SumSeqSizes(_)
SumSeqSizes(q) ==
  IF q = <<>> THEN 0 ELSE heap.size[Head(q)] + SumSeqSizes(Tail(q))

\* C5, as stated: when a bounded step returns "incomplete", the counter
\* exceeds the byte deadline by at most the size of one item.
OvershootAtMostOneItem ==
  IncompleteBoundedStep => ret.bytes <= ret.deadline + LargestSize

\* C5, amended: a bounded step returns "incomplete" only at an evaluation of
\* the yield predicate, with the counter at or beyond the byte deadline or
\* the time up; the counter was below the deadline at the previous
\* evaluation (or at the start of the step), so it exceeds the deadline by
\* less than the total size of the items processed since then.
OvershootBelowItemsSinceLastCheck ==
  IncompleteBoundedStep =>
    /\ ret.timeUp \/ ret.bytes >= ret.deadline
    /\ ret.checkBytes < ret.deadline
    /\ ret.sinceCheck # <<>>
    /\ ret.bytes - ret.deadline < SumSeqSizes(ret.sinceCheck)

\* C5, witness: a bounded step returned "incomplete" with the counter beyond
\* the deadline by more than the size of any one item.
OvershootBeyondOneItem ==
  /\ IncompleteBoundedStep
  /\ ret.bytes > ret.deadline + LargestSize
  /\ Len(ret.sinceCheck) >= 2

\* C6: when ProcessWeakness has returned, each weak-callback item that was
\* enqueued has been invoked exactly once and no other, the weak-callback
\* worklist is empty, and the marking worklist is empty if marking had
\* drained it.
WeaknessInvokesEachItemOnce ==
  (ret.op = "ProcessWeakness" /\ NoDuplicates(weak.enqueued)) =>
    /\ Len(weak.invoked) = Len(weak.enqueued)
    /\ Range(weak.invoked) = Range(weak.enqueued)
    /\ NoDuplicates(weak.invoked)
    /\ ms.weakq = <<>>
    /\ weak.mqBefore = <<>> => ms.mq = <<>>

\* C6, witness: ProcessWeakness returned after invoking several callbacks,
\* marking having drained the marking worklist.
SeveralWeakCallbacksInvoked ==
  /\ ret.op = "ProcessWeakness"
  /\ weak.mqBefore = <<>>
  /\ Len(weak.enqueued) >= 2
  /\ Len(weak.invoked) >= 2

\* C7: entering the atomic pause leaves every task
\* that has not run cancelled, and the run of a cancelled task changes
\* nothing of the marker: no worklist, not the marked bytes, not the config;
\* it posts no task and asks for no finalization.
StaleTaskIsNoOp ==
  [][/\ (phase = "Marking" /\ phase' # "Marking")
          => \A i \in 1..Len(tasks') : ~tasks'[i].ran => tasks'[i].cancelled
     /\ (ret'.op = "IncrementalMarkingTask::Run" /\ ret'.stale)
          => /\ ms' = ms
             /\ config_' = config_
             /\ Len(tasks') = Len(tasks)
             /\ incremental_marking_handle_' = incremental_marking_handle_
             /\ phase' = phase
             /\ procHeap' = procHeap
             /\ stats' = stats
             /\ rootVisits' = rootVisits
             /\ ~ret'.finalized]_vars

\* C7, witness: a task cancelled by the pause ran after the pause.
StaleTaskRan ==
  /\ ret.op = "IncrementalMarkingTask::Run"
  /\ ret.stale
  /\ phase \in {"AtomicPause", "Completed"}

\* C8: in an Incremental cycle with nothing reachable beyond the roots,
\* StartMarking raises the flag and posts one step, and the first step, its
\* time not up, returns "complete" with the marked bytes equal to the total
\* size of the root objects.
FirstStepCompletesRootsOnly ==
  /\ (ret.op = "StartMarking" /\ ctor.config.marking_type = "Incremental"
      /\ ctor.platform /\ ctor.foreground_task_runner)
       => procHeap.entered = 1 /\ Len(tasks) = 1
  /\ (/\ ret.op \in {"IncrementalMarkingStep", "IncrementalMarkingTask::Run"}
      /\ ~ret.stale
      /\ ctor.config.marking_type = "Incremental"
      /\ ctor.config.collection_type = "Major"
      /\ stack = {}
      /\ ReachableFrom(Roots) = Range(heap.persistent)
      /\ ret.start = 0
      /\ ~ret.timeUp)
       => /\ ret.done
          /\ ret.bytes = SumSizes(Range(heap.persistent))

\* C9: EnterIncrementalOrConcurrentMarking and
\* ExitIncrementalOrConcurrentMarking are paired: exits never outnumber
\* enters, a completed incremental or concurrent cycle has one of each, an
\* Atomic one none, and the roots of the atomic pause are visited with the
\* flag lowered.
EnterExitPaired ==
  /\ procHeap.exited <= procHeap.entered
  /\ procHeap.entered <= 1
  /\ phase = "Completed" =>
       /\ procHeap.entered = procHeap.exited
       /\ procHeap.entered =
            IF IsIncrementalOrConcurrent(ctor.config.marking_type)
            THEN 1 ELSE 0
  /\ ctor.config.marking_type = "Atomic" => procHeap.entered = 0
  /\ \A i \in 1..Len(rootVisits) :
       rootVisits[i].phase = "AtomicPause" => rootVisits[i].marking = 0

\* C9, witness: FinishMarking returned in an incremental or concurrent cycle.
IncrementalCycleFinished ==
  /\ ret.op = "FinishMarking"
  /\ procHeap.entered = 1
  /\ procHeap.exited = 1
  /\ \E i \in 1..Len(rootVisits) : rootVisits[i].phase = "AtomicPause"

\* C10: at most one task is posted, not yet run and not cancelled.
AtMostOneOutstandingTask == Cardinality(Pending) <= 1

\* C10, witness: a step returned "incomplete" while the task StartMarking
\* posted was outstanding, and posted no other.
IncompleteStepPostedNothing ==
  /\ ret.op \in {"AdvanceMarkingOnAllocation", "AdvanceMarkingWithDeadline"}
  /\ ~ret.done
  /\ Len(tasks) = 1
  /\ Pending = {1}

PauseEntered == phase = "Marking" /\ phase' \in {"AtomicPause", "Completed"}

\* C12, as stated: within a cycle the config changes only when the atomic
\* pause is entered; no other operation modifies any of its fields.
ConfigChangesOnlyAtPauseEntry ==
  [][config_' # config_ => PauseEntered]_vars

\* C12, amended: the marking type changes only when the atomic pause is
\* entered, to Atomic; the stack state is set when the atomic pause is
\* entered and by every incremental step (IncrementalMarkingStepForTesting
\* to the caller's value, a task's run to NoHeapPointers);
\* AdvanceMarkingOnAllocation, AdvanceMarkingWithDeadline and the other
\* operations modify no field, and the collection type never changes.
ConfigChangesAtPauseEntryAndSteps ==
  [][/\ config_'.collection_type = config_.collection_type
     /\ config_'.marking_type # config_.marking_type
          => PauseEntered /\ config_'.marking_type = "Atomic"
     /\ config_'.stack_state # config_.stack_state
          => \/ PauseEntered
             \/ ret'.op = "IncrementalMarkingStep"
             \/ /\ ret'.op = "IncrementalMarkingTask::Run"
                /\ ~ret'.stale
                /\ config_'.stack_state = "NoHeapPointers"]_vars

\* C12, witness: an incremental step outside the atomic pause has changed the
\* stack state the marker was constructed with.
StepChangedStackState ==
  /\ ret.op \in {"IncrementalMarkingStep", "IncrementalMarkingTask::Run"}
  /\ phase = "Marking"
  /\ config_.stack_state # ctor.config.stack_state
  /\ config_.marking_type = ctor.config.marking_type

RememberedSetVisits ==
  {i \in 1..Len(rootVisits) :
     \E k \in 1..Len(rootVisits[i].did) :
       rootVisits[i].did[k] = "RememberedSlots"}

NoPlatformDegradesGracefully ==
  (~ctor.platform \/ ~ctor.foreground_task_runner) =>
    /\ tasks = <<>>
    /\ phase # "Crashed"
    /\ (phase = "Marking" /\ ret.op \in BoundedOps \cup {"StartMarking"})
         => ms.dchecks = {}
    /\ stats.completed # <<>> =>
         \/ ret.op \in {"FinishMarking", "LeaveAtomicPause"}
         \/ phase = "Completed" /\ ret.op # "IncrementalMarkingTask::Run"

\* The part of C14 about a present platform without a foreground task runner.
NoRunnerDegradesGracefully ==
  (ctor.platform /\ ~ctor.foreground_task_runner) =>
    /\ tasks = <<>>
    /\ (phase = "Marking" /\ ret.op \in BoundedOps \cup {"StartMarking"})
         => ms.dchecks = {}
    /\ stats.completed # <<>> =>
         \/ ret.op \in {"FinishMarking", "LeaveAtomicPause"}
         \/ phase = "Completed" /\ ret.op # "IncrementalMarkingTask::Run"

TraceDChecks ==
  {"TraceMarkedObject:!IsInConstruction", "TraceMarkedObject:IsMarked",
   "MarkingItem:!IsInConstruction", "MarkingItem:IsMarked"}

\* C15: every entry of the previously-not-fully-constructed, the marking and
\* the write-barrier worklist refers to an object that is marked and not in
\* construction, and no DCHECK of TraceMarkedObject or of the marking
\* worklist's callback has failed, also for the entries
\* FlushNotFullyConstructedObjects moved.
TracedObjectsMarkedAndConstructed ==
  /\ ms.dchecks \cap TraceDChecks = {}
  /\ \A o \in Range(ms.pnfc) \cup Range(ms.mq) \cup Range(ms.wb) :
       o \in ms.marked /\ o \notin inConstruction

\* C15, witness: an object that FlushNotFullyConstructedObjects moved has
\* been traced by a drain, as have entries of the other worklists.
FlushedObjectTraced ==
  /\ \E o \in ms.flushed : o \in Range(ms.accounted)
  /\ Len(ms.accounted) >= 3

\* C16: while the marking type is Atomic, every AdvanceMarkingWithDeadline,
\* also the bounded one of AdvanceMarkingOnAllocation, returns done, and its
\* DCHECK that an incomplete drain is not atomic holds.
AtomicAdvanceReturnsDone ==
  (/\ ret.op \in {"AdvanceMarkingWithDeadline", "AdvanceMarkingOnAllocation"}
   /\ config_.marking_type = "Atomic")
    => /\ ret.done
       /\ "AdvanceMarkingWithDeadline:!kAtomic" \notin ms.dchecks

Did(v, what) == {k \in 1..Len(v.did) : v.did[k] = what}

\* C17: every VisitRoots resets the linear allocation buffers once, first,
\* then traces the strong persistent region, and scans the stack, after
\* both, exactly if the policy passed is not NoHeapPointers; the visit of
\* StartMarking does not scan the stack, and the visit of EnterAtomicPause
\* is made with the policy of its caller.
RootVisitResetsThenScans ==
  [][/\ \A i \in 1..Len(rootVisits') :
          /\ Did(rootVisits'[i], "ResetLinearAllocationBuffers") = {1}
          /\ Did(rootVisits'[i], "StrongPersistentRegion") = {2}
          /\ Did(rootVisits'[i], "Stack") =
               IF rootVisits'[i].stack_state # "NoHeapPointers"
               THEN {3} ELSE {}
          /\ rootVisits'[i].phase = "Marking" =>
               rootVisits'[i].stack_state = "NoHeapPointers"
     /\ PauseEntered =>
          /\ rootVisits'[Len(rootVisits')].phase = "AtomicPause"
          /\ rootVisits'[Len(rootVisits')].stack_state = config_'.stack_state
     /\ (ret'.op = "StartMarking" /\ config_'.collection_type = "Major")
          => ms'.marked \subseteq Range(heap.persistent)]_vars

\* C17, witness: the visit of StartMarking did not scan the stack, which
\* holds a pointer, and the visit of EnterAtomicPause scanned it.
StackScannedInPauseOnly ==
  /\ Len(rootVisits) = 2
  /\ rootVisits[1].phase = "Marking"
  /\ Did(rootVisits[1], "Stack") = {}
  /\ rootVisits[2].phase = "AtomicPause"
  /\ Did(rootVisits[2], "Stack") = {3}
  /\ stack # {}

DeadlineNotBelowStart ==
  (ret.op \in DrainOps /\ ~ret.stale) =>
    /\ ret.deadline >= ret.start
    /\ (~ret.done /\ ~ret.timeUp) => ret.bytes - ret.start >= ret.budget

Worklists == ms.pnfc \o ms.mq \o ms.wb \o ms.nfc

\* C20: FinishMarking returns after finitely many iterations of the do-while
\* loop, at most one more than the entries the cycle has processed, which
\* are at most the objects of the heap: the worklists hold every object at
\* most once and never an object that has been processed.
FinishMarkingLoopIsBounded ==
  /\ NoDuplicates(Worklists)
  /\ Range(Worklists) \cap Range(ms.accounted) = {}
  /\ Len(ms.accounted) <= Cardinality(Objs)
  /\ ret.op = "FinishMarking" =>
       /\ ret.loops >= 1
       /\ ret.loops <= Len(ms.accounted) + 1

\* C20, witness: FinishMarking returned after its loop ran more than once.
FinishMarkingLoopRepeated ==
  /\ ret.op = "FinishMarking"
  /\ ret.loops >= 2
  /\ ret.done

====
